---- MODULE Spec2Model ----
(***************************************************************************)
(* Model of SagasuSubs/api/__init__.py: class UploadFiles.                 *)
(*                                                                         *)
(* run() walks the local records, admits each one through an               *)
(* AdvanceSemaphore, launches upload_subtitles() as an asyncio task with a *)
(* done-callback that releases the semaphore, then drains and closes the   *)
(* HTTP client.  A task is suspended only while one HTTP round trip is in  *)
(* flight, so every action below is the code that runs between two         *)
(* suspensions of one coroutine (asyncio is single threaded).              *)
(*                                                                         *)
(* The remote service is the environment: it answers every request with a  *)
(* status and a body, or the transport raises.  AdvanceSemaphore lives in  *)
(* SagasuSubs.utils, which is not part of the sources at hand; it is       *)
(* modelled from its documented contract.                                  *)
(***************************************************************************)
EXTENDS Integers, Sequences, FiniteSets, TLC

\* ------------------------------------------------------------------ bounds
MaxRecords == 2
MaxParallel == 2
MaxSlice == 3
MaxDialogs == 5

\* the default of UploadFiles(upload_slice=...)
DefaultUploadSlice == 400

\* ------------------------------------------------------------- input sets
Hashes == {"abc123", "def456"}
SeriesIds == {"", "series"}

\* dialogs of a record: dto.DialogRead rows, identified by their content
DialogList(n) == [k \in 1..n |-> k]

\* dto.FileRead rows of a batch: either hash, one dialog each (a single bulk
\* call under the default slice)
RecordSet ==
    [sha1 : Hashes, series_id : {"series"}, dialogs : {DialogList(1)}]

\* dto.FileRead rows of every shape: with and without a series id, every
\* dialog count up to MaxDialogs
LongRecordSet ==
    [sha1 : {"def456"}, series_id : SeriesIds,
     dialogs : {DialogList(n) : n \in 0..MaxDialogs}]

RECURSIVE SeqsUpTo(_, _)
SeqsUpTo(S, n) ==
    IF n = 0 THEN {<<>>}
    ELSE LET shorter == SeqsUpTo(S, n - 1)
         IN  shorter \cup {Append(s, x) : s \in {q \in shorter : Len(q) = n - 1}, x \in S}

\* -------------------------------------------------------- remote service
\* What one HTTP round trip can end in.  status = 0 stands for "no response":
\* the transport raised (connect error, timeout), which is not an
\* httpx.HTTPStatusError.  Success answers carry the JSON entity the wire
\* contract promises; an error answer carries a body that may or may not be
\* JSON.
NoResponse == [status |-> 0, body |-> "none"]
OkAnswers(codes) == [status : codes, body : {"json"}]
ErrorAnswers(codes) == [status : codes, body : {"json", "text"}]

\* GET /api/files/sha1/{sha1}
LookupAnswers(present) ==
    (IF present THEN OkAnswers({200}) ELSE ErrorAnswers({404}))
        \cup ErrorAnswers({500}) \cup {NoResponse}

\* POST /api/files and POST /api/dialogs/bulk
PostAnswers == OkAnswers({200, 201}) \cup ErrorAnswers({500}) \cup {NoResponse}

VARIABLES
    db,            \* records file_crud.iterate(begin, end) yields, in order
    upload_slice,  \* self.upload_slice
    sem,           \* the AdvanceSemaphore of run()
    run_pc,        \* where run() stands
    index,         \* records the for loop of run() has taken from the source
    tasks,         \* the upload_subtitles tasks, in creation order
    closed,        \* self.client has been closed
    upstream,      \* hashes of the file entities the service held before the run
    created,       \* the file entities the run created: [id, sha1]
    dialogs_up     \* <<file_id, content>> of every dialog entity created

vars == <<db, upload_slice, sem, run_pc, index, tasks, closed,
          upstream, created, dialogs_up>>

\* ------------------------------------------------------ AdvanceSemaphore
AdvanceSemaphore(value) == [limit |-> value, counter |-> 0]
acquire_ready(s) == s.counter < s.limit
acquire(s) == [s EXCEPT !.counter = @ + 1]
release(s) == [s EXCEPT !.counter = @ - 1]
wait_all_finish_ready(s) == s.counter = 0

\* ---------------------------------------------------------- pure helpers
Min(a, b) == IF a < b THEN a ELSE b

\* httpx.Response.raise_for_status(): TRUE when it raises HTTPStatusError
raise_for_status(answer) == answer.status >= 400

\* a slice that stops one element early
PySlice_short(s, begin, n) == SubSeq(s, begin + 1, Min(begin + n - 1, Len(s)))

\* s[begin : begin + n] of Python, on a 1-based sequence
PySlice(s, begin, n) == SubSeq(s, begin + 1, Min(begin + n, Len(s)))

\* the bulk_data list upload_dialogs builds
bulk_data(file_id, dialogs) ==
    [k \in 1..Len(dialogs) |-> [file_id |-> file_id, content |-> dialogs[k]]]

\* one request as the client sends it
Call(op, begin, bulk) == [op |-> op, begin |-> begin, bulk |-> bulk]

Terminal == {"SKIPPED", "DONE", "FAILED", "RAISED"}

\* a launch that attaches the release callback twice
NewTask_two_callbacks(file) ==
    [file |-> file, state |-> "START", file_id |-> 0, begin |-> 0,
     responses |-> <<>>, calls |-> <<>>, log |-> <<>>,
     lookup |-> 0, rejected |-> 0, fault |-> "",
     callbacks |-> 2, released |-> 0]

\* a launch that attaches no release callback
NewTask_no_callback(file) ==
    [file |-> file, state |-> "START", file_id |-> 0, begin |-> 0,
     responses |-> <<>>, calls |-> <<>>, log |-> <<>>,
     lookup |-> 0, rejected |-> 0, fault |-> "",
     callbacks |-> 0, released |-> 0]

\* asyncio.create_task(self.upload_subtitles(file)) + add_done_callback.
\* lookup: status of the answer to the existence lookup (0: none yet);
\* rejected: status of the HTTPStatusError the inner handler caught (0: none);
\* fault: where an exception other than that HTTPStatusError was raised.
NewTask(file) ==
    [file |-> file, state |-> "START", file_id |-> 0, begin |-> 0,
     responses |-> <<>>, calls |-> <<>>, log |-> <<>>,
     lookup |-> 0, rejected |-> 0, fault |-> "",
     callbacks |-> 1, released |-> 0]

\* the service holds a file entity of this hash
Present(sha1) == sha1 \in upstream \/ \E e \in created : e.sha1 = sha1

\* -------------------------------------------------- upload_subtitles steps
\* an outer handler that logs and does not re-raise
outer_handler_swallow(t) ==
    [t EXCEPT !.state = "FAILED", !.log = Append(@, "exception")]

\* except Exception as e: logger.exception(...); raise
outer_handler(t) == [t EXCEPT !.state = "RAISED", !.log = Append(@, "exception")]

\* an exception that is no HTTPStatusError of upload_file / upload_dialogs
\* is raised at `stage`: only the outer handler catches it
Unexpected(t, stage) == outer_handler([t EXCEPT !.fault = stage])

\* except httpx.HTTPStatusError as e: logger.error(f"... data={response.json()}");
\* a body that is not JSON makes response.json() raise inside the handler
inner_handler(t, answer) ==
    LET caught == [t EXCEPT !.rejected = answer.status]
    IN  IF answer.body = "json"
        THEN [caught EXCEPT !.state = "FAILED", !.log = Append(@, "error")]
        ELSE Unexpected(caught, "response.json()")

\* an upload_dialogs that sends two chunks at once and awaits the second
SubmitChunk_pair(t, begin) ==
    LET bulk == bulk_data(t.file_id, t.file.dialogs)
        one == Call("POST /api/dialogs/bulk", begin,
                    PySlice(bulk, begin, upload_slice))
        two == Call("POST /api/dialogs/bulk", begin + upload_slice,
                    PySlice(bulk, begin + upload_slice, upload_slice))
    IN  IF begin + upload_slice < Len(bulk)
        THEN [t EXCEPT !.state = "CREATE_DIALOGS", !.begin = begin + upload_slice,
                       !.calls = @ \o <<one, two>>]
        ELSE IF begin < Len(bulk)
        THEN [t EXCEPT !.state = "CREATE_DIALOGS", !.begin = begin,
                       !.calls = Append(@, one)]
        ELSE [t EXCEPT !.state = "DONE"]

\* the POST of the chunk at `begin` in upload_dialogs, or the return after
\* the last one
SubmitChunk(t, begin) ==
    LET bulk == bulk_data(t.file_id, t.file.dialogs)
    IN  IF begin < Len(bulk)
        THEN [t EXCEPT !.state = "CREATE_DIALOGS", !.begin = begin,
                       !.calls = Append(@, Call("POST /api/dialogs/bulk", begin,
                                                PySlice(bulk, begin, upload_slice)))]
        ELSE [t EXCEPT !.state = "DONE"]

\* an upload_file without its assert
upload_file_unchecked(t) ==
    [t EXCEPT !.state = "CREATE_FILE",
              !.calls = Append(@, Call("POST /api/files", 0, <<>>))]

\* upload_file up to its await: the assert, then the POST
upload_file(t) ==
    IF t.file.series_id = ""
    THEN Unexpected(t, "assert")
    ELSE [t EXCEPT !.state = "CREATE_FILE",
                   !.calls = Append(@, Call("POST /api/files", 0, <<>>))]

\* a get_file with the branches of its try swapped
get_file_swapped(answer) == IF raise_for_status(answer) THEN "FileRead" ELSE "None"

\* get_file after its await: the entity, or None
get_file(answer) == IF raise_for_status(answer) THEN "None" ELSE "FileRead"

\* the task starts: get_file sends the lookup
upload_subtitles(n) ==
    /\ n \in 1..Len(tasks)
    /\ tasks[n].state = "START"
    /\ tasks' = [tasks EXCEPT ![n] =
                   [@ EXCEPT !.state = "DEDUP_CHECK",
                             !.calls = Append(@, Call("GET /api/files/sha1", 0, <<>>))]]
    /\ UNCHANGED <<db, upload_slice, sem, run_pc, index, closed,
                   upstream, created, dialogs_up>>

\* the lookup is answered: if await self.get_file(file.sha1): return,
\* else on to upload_file
get_file_answer(n) ==
    /\ n \in 1..Len(tasks)
    /\ tasks[n].state = "DEDUP_CHECK"
    /\ \E answer \in LookupAnswers(Present(tasks[n].file.sha1)) :
         LET t == [tasks[n] EXCEPT !.lookup = answer.status]
         IN  tasks' = [tasks EXCEPT ![n] =
                IF answer = NoResponse THEN Unexpected(t, "client.get")
                ELSE IF get_file(answer) = "FileRead"
                THEN [t EXCEPT !.state = "SKIPPED", !.log = Append(@, "skip")]
                ELSE upload_file(t)]
    /\ UNCHANGED <<db, upload_slice, sem, run_pc, index, closed,
                   upstream, created, dialogs_up>>

\* POST /api/files is answered: upload_file returns the entity and
\* upload_dialogs starts, or the answer is an error.  The id the service
\* assigns is opaque and new; the number of the task that asked stands for it.
upload_file_answer(n) ==
    /\ n \in 1..Len(tasks)
    /\ tasks[n].state = "CREATE_FILE"
    /\ \E answer \in PostAnswers :
         IF answer = NoResponse
         THEN /\ tasks' = [tasks EXCEPT ![n] = Unexpected(@, "client.post")]
              /\ UNCHANGED created
         ELSE IF raise_for_status(answer)
         THEN /\ tasks' = [tasks EXCEPT ![n] = inner_handler(@, answer)]
              /\ UNCHANGED created
         ELSE /\ created' = created \cup {[id |-> n, sha1 |-> tasks[n].file.sha1]}
              /\ tasks' = [tasks EXCEPT ![n] =
                     SubmitChunk([@ EXCEPT !.file_id = n,
                                           !.log = Append(@, "file")], 0)]
    /\ UNCHANGED <<db, upload_slice, sem, run_pc, index, closed,
                   upstream, dialogs_up>>

\* an upload_dialogs that goes on to the next chunk after a rejected one
upload_dialogs_answer_continue(n) ==
    /\ n \in 1..Len(tasks)
    /\ tasks[n].state = "CREATE_DIALOGS"
    /\ LET t == tasks[n]
           chunk == t.calls[Len(t.calls)].bulk
       IN  \E answer \in PostAnswers :
             IF answer = NoResponse
             THEN /\ tasks' = [tasks EXCEPT ![n] = Unexpected(@, "client.post")]
                  /\ UNCHANGED dialogs_up
             ELSE IF raise_for_status(answer)
             THEN /\ tasks' = [tasks EXCEPT ![n] =
                        SubmitChunk([@ EXCEPT !.rejected = answer.status,
                                              !.log = Append(@, "error")],
                                    t.begin + upload_slice)]
                  /\ UNCHANGED dialogs_up
             ELSE /\ dialogs_up' = dialogs_up \cup
                        {<<chunk[k].file_id, chunk[k].content>> : k \in 1..Len(chunk)}
                  /\ tasks' = [tasks EXCEPT ![n] =
                        SubmitChunk([@ EXCEPT !.responses = @ \o chunk,
                                              !.log = Append(@, "dialog")],
                                    t.begin + upload_slice)]
    /\ UNCHANGED <<db, upload_slice, sem, run_pc, index, closed,
                   upstream, created>>

\* POST /api/dialogs/bulk is answered: the next chunk, the return after the
\* last one, or the answer is an error
upload_dialogs_answer(n) ==
    /\ n \in 1..Len(tasks)
    /\ tasks[n].state = "CREATE_DIALOGS"
    /\ LET t == tasks[n]
           chunk == t.calls[Len(t.calls)].bulk
       IN  \E answer \in PostAnswers :
             IF answer = NoResponse
             THEN /\ tasks' = [tasks EXCEPT ![n] = Unexpected(@, "client.post")]
                  /\ UNCHANGED dialogs_up
             ELSE IF raise_for_status(answer)
             THEN /\ tasks' = [tasks EXCEPT ![n] = inner_handler(@, answer)]
                  /\ UNCHANGED dialogs_up
             ELSE /\ dialogs_up' = dialogs_up \cup
                        {<<chunk[k].file_id, chunk[k].content>> : k \in 1..Len(chunk)}
                  /\ tasks' = [tasks EXCEPT ![n] =
                        SubmitChunk([@ EXCEPT !.responses = @ \o chunk,
                                              !.log = Append(@, "dialog")],
                                    t.begin + upload_slice)]
    /\ UNCHANGED <<db, upload_slice, sem, run_pc, index, closed,
                   upstream, created>>

\* a release that only follows a task that returned
done_callback_on_return(n) ==
    /\ n \in 1..Len(tasks)
    /\ tasks[n].state \in {"SKIPPED", "DONE"}
    /\ tasks[n].callbacks > 0
    /\ tasks' = [tasks EXCEPT ![n] =
                   [@ EXCEPT !.callbacks = @ - 1, !.released = @ + 1]]
    /\ sem' = release(sem)
    /\ UNCHANGED <<db, upload_slice, run_pc, index, closed,
                   upstream, created, dialogs_up>>

\* the task is done: its done-callbacks run, each calling sem.release()
done_callback(n) ==
    /\ n \in 1..Len(tasks)
    /\ tasks[n].state \in Terminal
    /\ tasks[n].callbacks > 0
    /\ tasks' = [tasks EXCEPT ![n] =
                   [@ EXCEPT !.callbacks = @ - 1, !.released = @ + 1]]
    /\ sem' = release(sem)
    /\ UNCHANGED <<db, upload_slice, run_pc, index, closed,
                   upstream, created, dialogs_up>>

\* ---------------------------------------------------------------- run()
\* for file in progress: the source yields its next record and run() goes to
\* acquire(), or the source is exhausted and run() goes to wait_all_finish()
ForNext ==
    IF index < Len(db)
    THEN /\ index' = index + 1
         /\ run_pc' = "acquire"
    ELSE /\ index' = index
         /\ run_pc' = "wait_all_finish"

\* run() is called: sem = AdvanceSemaphore(parallel), the loop is entered
run_begin ==
    /\ run_pc = "start"
    /\ ForNext
    /\ UNCHANGED <<db, upload_slice, sem, tasks, closed,
                   upstream, created, dialogs_up>>

\* a launch that does not wait for the semaphore
run_launch_unguarded ==
    /\ run_pc = "acquire"
    /\ sem' = acquire(sem)
    /\ tasks' = Append(tasks, NewTask(db[index]))
    /\ ForNext
    /\ UNCHANGED <<db, upload_slice, closed, upstream, created, dialogs_up>>

\* a launch that creates two tasks for the record
run_launch_twice ==
    /\ run_pc = "acquire"
    /\ acquire_ready(sem)
    /\ sem' = acquire(acquire(sem))
    /\ tasks' = tasks \o <<NewTask(db[index]), NewTask(db[index])>>
    /\ ForNext
    /\ UNCHANGED <<db, upload_slice, closed, upstream, created, dialogs_up>>

\* a launch that takes the records from the far end of the source
run_launch_reversed ==
    /\ run_pc = "acquire"
    /\ acquire_ready(sem)
    /\ sem' = acquire(sem)
    /\ tasks' = Append(tasks, NewTask(db[Len(db) - index + 1]))
    /\ ForNext
    /\ UNCHANGED <<db, upload_slice, closed, upstream, created, dialogs_up>>

\* a launch that creates the task without counting it in the semaphore
run_launch_uncounted ==
    /\ run_pc = "acquire"
    /\ acquire_ready(sem)
    /\ tasks' = Append(tasks, NewTask(db[index]))
    /\ ForNext
    /\ UNCHANGED <<db, upload_slice, sem, closed, upstream, created, dialogs_up>>

\* await sem.acquire() returns; create_task(...); add_done_callback(...);
\* then the loop goes round
run_launch ==
    /\ run_pc = "acquire"
    /\ acquire_ready(sem)
    /\ sem' = acquire(sem)
    /\ tasks' = Append(tasks, NewTask(db[index]))
    /\ ForNext
    /\ UNCHANGED <<db, upload_slice, closed, upstream, created, dialogs_up>>

\* a run() that goes to aclose() without waiting for the tasks
run_wait_all_finish_early ==
    /\ run_pc = "wait_all_finish"
    /\ run_pc' = "aclose"
    /\ UNCHANGED <<db, upload_slice, sem, index, tasks, closed,
                   upstream, created, dialogs_up>>

\* sem.wait_all_finish() returns; self.client.aclose() is called
run_wait_all_finish ==
    /\ run_pc = "wait_all_finish"
    /\ wait_all_finish_ready(sem)
    /\ run_pc' = "aclose"
    /\ UNCHANGED <<db, upload_slice, sem, index, tasks, closed,
                   upstream, created, dialogs_up>>

\* self.client.aclose() is done; return
run_aclose ==
    /\ run_pc = "aclose"
    /\ closed' = TRUE
    /\ run_pc' = "return"
    /\ UNCHANGED <<db, upload_slice, sem, index, tasks,
                   upstream, created, dialogs_up>>

\* --------------------------------------------------------- specification
\* what run(parallel=...) starts from, whatever the records and the service
Start ==
    /\ sem \in {AdvanceSemaphore(parallel) : parallel \in 1..MaxParallel}
    /\ run_pc = "start"
    /\ index = 0
    /\ tasks = <<>>
    /\ closed = FALSE
    /\ created = {}
    /\ dialogs_up = {}

\* a batch of up to MaxRecords short records, in any order and with
\* repetitions; the service already holds "abc123" and not "def456"
Init ==
    /\ db \in SeqsUpTo(RecordSet, MaxRecords)
    /\ upload_slice = DefaultUploadSlice
    /\ upstream = {"abc123"}
    /\ Start

\* one new record of any shape, every slice up to MaxSlice
InitSliced ==
    /\ db \in {<<file>> : file \in LongRecordSet}
    /\ upload_slice \in 1..MaxSlice
    /\ upstream = {}
    /\ Start

task_step(n) ==
    \/ upload_subtitles(n)
    \/ get_file_answer(n)
    \/ upload_file_answer(n)
    \/ upload_dialogs_answer(n)
    \/ done_callback(n)

run ==
    \/ run_begin
    \/ run_launch
    \/ run_wait_all_finish
    \/ run_aclose

Next ==
    \/ run
    \/ \E n \in 1..MaxRecords : task_step(n)

Spec == Init /\ [][Next]_vars

SlicedSpec == InitSliced /\ [][Next]_vars

\* every network call eventually returns, and the event loop runs every
\* coroutine and callback that is ready
Fairness ==
    /\ WF_vars(run)
    /\ \A n \in 1..MaxRecords : WF_vars(task_step(n))

FairSpec == Spec /\ Fairness

\* ------------------------------------------------------ derived notions
Launched == 1..Len(tasks)

\* upload_subtitles tasks created and not finished
Active == {n \in Launched : tasks[n].state \notin Terminal}

\* the requests of one kind a task has sent, in order
CallsOf(t, op) == SelectSeq(t.calls, LAMBDA c : c.op = op)

Posted(t) ==
    Len(CallsOf(t, "POST /api/files")) + Len(CallsOf(t, "POST /api/dialogs/bulk"))

RECURSIVE SumReleased(_)
SumReleased(n) == IF n = 0 THEN 0 ELSE tasks[n].released + SumReleased(n - 1)

\* ceil(L / S)
Ceil(L, S) == (L + S - 1) \div S

\* the dialogs of a sequence of bulk calls, one after the other
RECURSIVE Flatten(_)
Flatten(cs) == IF cs = <<>> THEN <<>> ELSE Head(cs).bulk \o Flatten(Tail(cs))

\* file entities of hash h the run has created
CreatedOf(h) == {e \in created : e.sha1 = h}

\* the bulk calls of a task, in order
BulkOf(t) == CallsOf(t, "POST /api/dialogs/bulk")

\* the dialog entities one bulk call asks for
ChunkPairs(c) == {<<c.bulk[k].file_id, c.bulk[k].content>> : k \in 1..Len(c.bulk)}

\* the requests UploadFiles knows: a lookup and two creations, nothing that
\* deletes
KnownOps == {"GET /api/files/sha1", "POST /api/files", "POST /api/dialogs/bulk"}

\* ---------------------------------------------------------------- claims

\* C1: bounded concurrency.  In every reachable state of run() the
\* upload_subtitles tasks that were launched and have not finished are at most
\* `parallel` many (each of them holds a slot of the semaphore, and no more
\* than `parallel` slots are ever held).
C1_BoundedConcurrency ==
    /\ Cardinality(Active) <= sem.counter
    /\ sem.counter <= sem.limit

\* run() is held at acquire() because `parallel` tasks are running
C1_Witness ==
    /\ run_pc = "acquire"
    /\ Cardinality(Active) = sem.limit

\* C2: slot conservation.  Every acquire of run() has exactly one release,
\* either done or still to come: a task has released at most once and only
\* after it ended, whatever its outcome; a task that ended and has not
\* released has its release ready to run, and one that released has none left;
\* the counter is the acquires minus the releases; and once wait_all_finish()
\* has returned every acquire has had its one release and the counter is zero.
\* (That the release ready to run does run is part of C8.)
C2_SlotConservation ==
    /\ \A n \in Launched :
          /\ tasks[n].released <= 1
          /\ tasks[n].released = 1 =>
                tasks[n].state \in Terminal /\ ~ENABLED done_callback(n)
          /\ (tasks[n].state \in Terminal /\ tasks[n].released = 0) =>
                ENABLED done_callback(n)
    /\ sem.counter = Len(tasks) - SumReleased(Len(tasks))
    /\ run_pc \in {"aclose", "return"} =>
          /\ sem.counter = 0
          /\ \A n \in Launched : tasks[n].released = 1

\* the run is over, one task having been rejected and one having raised
C2_Witness ==
    /\ run_pc = "return"
    /\ \E n \in Launched : tasks[n].state = "FAILED" /\ tasks[n].released = 1
    /\ \E n \in Launched : tasks[n].state = "RAISED" /\ tasks[n].released = 1

\* C3: dedup.  A task whose lookup was answered with success (its hash is
\* held upstream) has sent no POST /api/files and no POST /api/dialogs/bulk
\* and has ended SKIPPED.
C3_Dedup ==
    \A n \in Launched :
        tasks[n].lookup = 200 =>
            /\ Present(tasks[n].file.sha1)
            /\ tasks[n].state = "SKIPPED"
            /\ Posted(tasks[n]) = 0

C3_Witness ==
    \E n \in Launched :
        /\ tasks[n].lookup = 200
        /\ tasks[n].state = "SKIPPED"
        /\ tasks[n].log = <<"skip">>

\* C4: a lookup answered 404 lets the task go on to create-file, and a lookup
\* answered with any other error status propagates: the task ends with that
\* error and has sent no POST /api/files.
C4_LookupErrorPropagates ==
    \A n \in Launched :
        /\ tasks[n].lookup = 404 =>
              Len(CallsOf(tasks[n], "POST /api/files")) = 1
        /\ tasks[n].lookup \notin {0, 200, 404} =>
              /\ tasks[n].state = "RAISED"
              /\ Len(CallsOf(tasks[n], "POST /api/files")) = 0

\* C5: containment.  A step in which a task is rejected by the service
\* touches no other task, nor run(), nor the semaphore; and while some task
\* has been rejected, every other task that has not ended can take its next
\* step, and run(), until it returns, is never stuck: it can step itself, or
\* some task can (the release it waits for is on its way).
C5_Containment ==
    /\ [][\A n \in Launched :
            tasks'[n].rejected # tasks[n].rejected =>
                /\ \A m \in Launched \ {n} : tasks'[m] = tasks[m]
                /\ Len(tasks') = Len(tasks)
                /\ run_pc' = run_pc
                /\ sem' = sem]_vars
    /\ [](\A n \in Launched :
            tasks[n].rejected # 0 =>
                /\ \A m \in Launched \ {n} :
                      tasks[m].state \notin Terminal => ENABLED task_step(m)
                /\ run_pc # "return" =>
                      ENABLED run \/ \E m \in Launched : ENABLED task_step(m))

\* with one slot, the record after a rejected one was launched and is DONE
C5_Witness ==
    /\ sem.limit = 1
    /\ Len(tasks) = 2
    /\ tasks[1].rejected # 0
    /\ tasks[2].state = "DONE"

\* C6: a non-success status on create-file or create-dialogs, whatever the
\* body, is caught in upload_subtitles: the error is logged with status and
\* body, the task ends FAILED and returns normally.
C6_RejectionContained ==
    \A n \in Launched :
        tasks[n].rejected # 0 =>
            /\ tasks[n].state = "FAILED"
            /\ tasks[n].log[Len(tasks[n].log)] = "error"

\* C7: chunk order.  With L dialogs and slice S the bulk calls of a task are,
\* at every moment, the first chunks of the list: call k starts at offset
\* (k - 1) * S and carries the dialogs (k - 1) * S + 1 .. min(k * S, L) in input
\* order, at least one and at most S of them; when upload_dialogs has returned
\* there were exactly ceil(L / S) calls, and the result is the chunk answers in
\* submission order, which is the input order.
C7_ChunkOrder ==
    \A n \in Launched :
        LET t == tasks[n]
            L == Len(t.file.dialogs)
            S == upload_slice
            bulk == CallsOf(t, "POST /api/dialogs/bulk")
        IN  /\ Len(bulk) <= Ceil(L, S)
            /\ \A k \in 1..Len(bulk) :
                  /\ bulk[k].begin = (k - 1) * S
                  /\ Len(bulk[k].bulk) = (IF k * S <= L THEN S ELSE L - (k - 1) * S)
                  /\ Len(bulk[k].bulk) \in 1..S
                  /\ \A j \in 1..Len(bulk[k].bulk) :
                        /\ bulk[k].bulk[j].content = t.file.dialogs[(k - 1) * S + j]
                        /\ bulk[k].bulk[j].file_id = t.file_id
            /\ t.state = "DONE" =>
                  /\ Len(bulk) = Ceil(L, S)
                  /\ t.responses = Flatten(bulk)
                  /\ [k \in 1..Len(t.responses) |-> t.responses[k].content] = t.file.dialogs

\* five dialogs in slices of two: chunks of 2, 2 and 1, and DONE
C7_Witness ==
    /\ upload_slice = 2
    /\ \E n \in Launched :
          /\ Len(tasks[n].file.dialogs) = 5
          /\ tasks[n].state = "DONE"
          /\ Len(CallsOf(tasks[n], "POST /api/dialogs/bulk")) = 3
          /\ Len(tasks[n].calls[Len(tasks[n].calls)].bulk) = 1

\* C8: batch completion.  When every call is answered and the event loop is
\* fair, every record is launched, every task reaches a terminal state,
\* wait_all_finish() returns and run() returns, however many tasks failed.
C8_BatchCompletion ==
    <>[](/\ run_pc = "return"
         /\ Len(tasks) = Len(db)
         /\ sem.counter = 0
         /\ \A n \in Launched : tasks[n].state \in Terminal)

\* run() has returned from a batch in which every task failed
C8_Witness ==
    /\ run_pc = "return"
    /\ Len(db) >= 2
    /\ Len(tasks) = Len(db)
    /\ \A n \in Launched : tasks[n].state \in {"FAILED", "RAISED"}

\* C9: per-hash uniqueness.  The run creates at most one file entity for any
\* content hash, because every create-file follows a lookup of that hash.
\* Stated for the runs in which every lookup so far was answered truthfully
\* (200 or 404), so that no failed lookup is what breaks it.
C9_PerHashUnique ==
    (\A n \in Launched : tasks[n].lookup \in {0, 200, 404}) =>
        \A h \in Hashes : Cardinality(CreatedOf(h)) <= 1

\* C10: unexpected fault.  An exception other than a caught remote rejection,
\* raised at any stage, is logged by the outer handler and leaves
\* upload_subtitles: the task ends with it, and only such a task ends with an
\* exception.  The slot of that task has been released once or its release is
\* ready to run, never both and never twice.
C10_UnexpectedFault ==
    \A n \in Launched :
        /\ tasks[n].fault # "" =>
              /\ tasks[n].state = "RAISED"
              /\ tasks[n].log[Len(tasks[n].log)] = "exception"
        /\ tasks[n].state = "RAISED" =>
              /\ tasks[n].fault # ""
              /\ tasks[n].released <= 1
              /\ (tasks[n].released = 1) # (ENABLED done_callback(n))

\* a transport error during create-dialogs: the task raised, the slot is free
C10_Witness ==
    \E n \in Launched :
        /\ tasks[n].fault = "client.post"
        /\ tasks[n].state = "RAISED"
        /\ Len(CallsOf(tasks[n], "POST /api/dialogs/bulk")) = 1
        /\ tasks[n].released = 1
        /\ sem.counter = 0

\* C11: non-transactional bulk upload.  A bulk call is only ever sent after
\* every earlier chunk of the record was created upstream.  When the call for
\* chunk k fails, upload_dialogs does not return (the task ends FAILED or
\* RAISED), the file entity and the dialogs of chunks 1..k-1 are upstream and
\* stay there (nothing is ever removed and no request other than the lookup
\* and the two creations is ever sent), chunk k is not upstream, and the task
\* sends no further call.
C11_NonTransactional ==
    /\ [](\A n \in Launched :
            LET t == tasks[n]
                bulk == BulkOf(t)
                k == Len(bulk)
                mine == {d \in dialogs_up : d[1] = t.file_id}
                before == UNION {ChunkPairs(bulk[j]) : j \in 1..(k - 1)}
            IN  /\ \A i \in 1..Len(t.calls) : t.calls[i].op \in KnownOps
                /\ before \subseteq dialogs_up
                /\ (t.state \in {"FAILED", "RAISED"} /\ k >= 1) =>
                      /\ t.rejected # 0 \/ t.fault # ""
                      /\ [id |-> t.file_id, sha1 |-> t.file.sha1] \in created
                      /\ mine = before
                      /\ Len(t.responses) = Cardinality(before))
    /\ [][/\ dialogs_up \subseteq dialogs_up'
          /\ created \subseteq created'
          /\ \A n \in Launched :
                tasks[n].state \in Terminal => tasks'[n].calls = tasks[n].calls]_vars

\* five dialogs in slices of two: the second chunk was rejected, the first
\* chunk is upstream, the third was never sent
C11_Witness ==
    /\ upload_slice = 2
    /\ \E n \in Launched :
          /\ Len(tasks[n].file.dialogs) = 5
          /\ tasks[n].state = "FAILED"
          /\ Len(BulkOf(tasks[n])) = 2
          /\ dialogs_up = {<<tasks[n].file_id, 1>>, <<tasks[n].file_id, 2>>}
          /\ tasks[n].released = 1

\* C12: per-unit step order.  The calls of one task are the lookup, then
\* create-file, then the bulk calls, each sent after the one before it was
\* answered: create-file is sent only after the lookup was answered not-found,
\* a bulk call is sent only after create-file succeeded and carries the id the
\* service assigned, and a task whose create-file was rejected has sent no
\* bulk call.
C12_StepOrder ==
    \A n \in Launched :
        LET t == tasks[n]
        IN  /\ \A i \in 1..Len(t.calls) :
                  t.calls[i].op = IF i = 1 THEN "GET /api/files/sha1"
                                  ELSE IF i = 2 THEN "POST /api/files"
                                  ELSE "POST /api/dialogs/bulk"
            /\ Len(t.calls) >= 2 => t.lookup = 404
            /\ Len(t.calls) >= 3 =>
                  /\ t.file_id # 0
                  /\ [id |-> t.file_id, sha1 |-> t.file.sha1] \in created
                  /\ \A i \in 3..Len(t.calls) :
                        \A k \in 1..Len(t.calls[i].bulk) :
                            t.calls[i].bulk[k].file_id = t.file_id
            /\ (t.rejected # 0 /\ t.file_id = 0) => BulkOf(t) = <<>>

\* C13: drain before close.  Once run() waits in wait_all_finish() the source
\* is exhausted, every record has its task, and nothing is acquired or
\* launched any more; once wait_all_finish() has returned and aclose() is
\* called, every task has ended and given its slot back, and no task sends a
\* call or changes from then on.
C13_DrainBeforeClose ==
    /\ [](run_pc \in {"wait_all_finish", "aclose", "return"} =>
            /\ index = Len(db)
            /\ Len(tasks) = Len(db))
    /\ [](run_pc \in {"aclose", "return"} =>
            /\ sem.counter = 0
            /\ \A n \in Launched :
                  tasks[n].state \in Terminal /\ tasks[n].released = 1)
    /\ [](closed <=> run_pc = "return")
    /\ [][(run_pc \in {"wait_all_finish", "aclose", "return"}) =>
            (/\ Len(tasks') = Len(tasks)
             /\ sem'.counter <= sem.counter
             /\ run_pc' \in {"wait_all_finish", "aclose", "return"})]_vars
    /\ [][(run_pc \in {"aclose", "return"}) => tasks' = tasks]_vars

\* the client is closed after two tasks ran at once and sent their calls
C13_Witness ==
    /\ closed
    /\ sem.limit = 2
    /\ Len(tasks) = 2
    /\ \A n \in Launched : Len(tasks[n].calls) >= 2 /\ tasks[n].released = 1

\* tasks whose done callback has not released yet
Holding == {n \in Launched : tasks[n].released = 0}

\* C14, as stated: the counter is never negative, and it is zero exactly
\* when no upload_subtitles task is running.
C14_CounterZeroIffIdle ==
    /\ sem.counter >= 0
    /\ sem.counter = 0 <=> Active = {}

\* C14, amended: the counter is never negative and counts the launched tasks
\* whose done callback has not run yet.  So a counter of zero means no task
\* is running, and a task that is running is counted; a positive counter
\* with no task running happens only while done callbacks of ended tasks
\* are still to run.
C14_CounterCountsHeldSlots ==
    /\ sem.counter >= 0
    /\ sem.counter = Cardinality(Holding)
    /\ Active \subseteq Holding
    /\ sem.counter = 0 => Active = {}
    /\ (Active = {} /\ sem.counter > 0) =>
          \A n \in Holding : tasks[n].state \in Terminal /\ ENABLED done_callback(n)

\* two tasks have ended, neither callback has run: nothing runs, counter 2
C14_Witness ==
    /\ Len(tasks) = 2
    /\ Active = {}
    /\ sem.counter = 2

\* C15: launch order.  The n-th task launched is for the n-th record of the
\* source; when run() attempts acquire() for record i, the tasks of records
\* 1..i-1 have all been launched, and tasks once launched keep their place.
\* The order of completion is not fixed by this: only with parallel = 1 has
\* every earlier task ended and released before a later one is launched.
C15_LaunchOrder ==
    /\ [](/\ \A n \in Launched : tasks[n].file = db[n]
          /\ Len(tasks) <= index /\ index <= Len(tasks) + 1
          /\ run_pc = "acquire" => index = Len(tasks) + 1
          /\ sem.limit = 1 =>
                \A n \in Launched : n < Len(tasks) =>
                    tasks[n].state \in Terminal /\ tasks[n].released = 1)
    /\ [][/\ Len(tasks') \in {Len(tasks), Len(tasks) + 1}
          /\ \A n \in Launched : tasks'[n].file = tasks[n].file]_vars

\* parallel = 2: the task launched second has ended and released, the task
\* launched first has not even been answered its lookup
C15_Witness ==
    /\ sem.limit = 2
    /\ Len(tasks) = 2
    /\ tasks[2].state \in Terminal /\ tasks[2].released = 1
    /\ tasks[1].state = "DEDUP_CHECK"

\* C16: sequential chunk submission.  Of the bulk calls of one task only the
\* last can be unanswered: every earlier one was answered with success (its
\* dialogs are in `responses`, in order), and the last is in flight exactly
\* while the task awaits it.  A step adds at most one bulk call, and it adds
\* chunk j+1 in the very step in which the answer to chunk j arrives.
C16_SequentialChunks ==
    /\ [](\A n \in Launched :
            LET t == tasks[n]
                bulk == BulkOf(t)
                k == Len(bulk)
            IN  k >= 1 =>
                  /\ t.calls[Len(t.calls)] = bulk[k]
                  /\ t.state \in {"CREATE_DIALOGS", "DONE", "FAILED", "RAISED"}
                  /\ t.responses = Flatten(SubSeq(bulk, 1, k - 1)) \o
                        (IF t.state = "DONE" THEN bulk[k].bulk ELSE <<>>))
    /\ [][\A n \in Launched :
            LET bulk == BulkOf(tasks[n])
                k == Len(bulk)
                k2 == Len(BulkOf(tasks'[n]))
            IN  /\ k2 \in {k, k + 1}
                /\ (k2 = k + 1 /\ k >= 1) =>
                      /\ tasks[n].state = "CREATE_DIALOGS"
                      /\ tasks'[n].responses = tasks[n].responses \o bulk[k].bulk]_vars

\* five dialogs in slices of two: the third call is in flight, the first two
\* were answered
C16_Witness ==
    /\ upload_slice = 2
    /\ \E n \in Launched :
          /\ tasks[n].state = "CREATE_DIALOGS"
          /\ Len(BulkOf(tasks[n])) = 3
          /\ Len(tasks[n].responses) = 4

\* C17: exactly one unit per record.  The tasks are, one for one, the
\* records the loop has taken from the source and got a slot for: task n is
\* for record n, there is never a task more than records taken, and when the
\* loop is over there are as many tasks as records.  Every launch is one
\* acquire(): the acquires (slots held plus slots given back) equal the
\* tasks, and a step adds a task exactly when it adds one to the counter.
C17_OneUnitPerRecord ==
    /\ [](/\ Len(tasks) = (IF run_pc = "acquire" THEN index - 1 ELSE index)
          /\ Len(tasks) <= Len(db)
          /\ \A n \in Launched : tasks[n].file = db[n]
          /\ sem.counter + SumReleased(Len(tasks)) = Len(tasks)
          /\ run_pc \in {"wait_all_finish", "aclose", "return"} =>
                Len(tasks) = Len(db))
    /\ [][/\ Len(tasks') # Len(tasks) =>
                (/\ Len(tasks') = Len(tasks) + 1
                 /\ sem'.counter = sem.counter + 1)
          /\ sem'.counter > sem.counter => Len(tasks') = Len(tasks) + 1]_vars

\* the source yielded the same record twice: run() has returned after two
\* tasks, one for each
C17_Witness ==
    /\ run_pc = "return"
    /\ Len(db) = 2 /\ db[1] = db[2]
    /\ Len(tasks) = 2
    /\ SumReleased(2) = 2

\* C18: missing series_id.  A task whose record has an empty series_id never
\* sends a POST, neither /api/files nor /api/dialogs/bulk.  Once its lookup
\* has been answered with an error status (the hash is not upstream) the
\* task has ended by re-raising the failed assert: RAISED through the outer
\* handler, logged as an exception, with no rejection of the service recorded;
\* its done callback has released the slot or is about to, and has done so
\* when run() returns.
C18_MissingSeriesId ==
    \A n \in Launched :
        LET t == tasks[n]
        IN  t.file.series_id = "" =>
              /\ Posted(t) = 0
              /\ t.state # "FAILED" /\ t.rejected = 0
              /\ t.lookup >= 400 =>
                    /\ t.state = "RAISED"
                    /\ t.fault = "assert"
                    /\ t.log = <<"exception">>
                    /\ t.released = 1 \/ ENABLED done_callback(n)
              /\ run_pc = "return" => t.released = 1

\* the lookup said not-found, the assert failed, the slot is back and run()
\* has returned
C18_Witness ==
    /\ run_pc = "return"
    /\ \E n \in Launched :
          /\ tasks[n].file.series_id = ""
          /\ tasks[n].lookup = 404
          /\ tasks[n].fault = "assert"
          /\ tasks[n].state = "RAISED"
          /\ tasks[n].released = 1

====
